---- MODULE Spec2Model ----
(***************************************************************************)
(* Model of src/validation.rs: the accumulating Validation<A> type, its    *)
(* combinators (from, map, result_map, and, and_, sequence, sequence_) and *)
(* the fatal-error collection helper collect_vec.                          *)
(*                                                                         *)
(* The program state is the collection of Validation values a caller owns  *)
(* (stack: combinators take their operands by value, so an operand leaves  *)
(* the stack when it is consumed) and the record of the last call (last).  *)
(***************************************************************************)
EXTENDS Integers, Sequences, FiniteSets

VARIABLES stack, last

vars == <<stack, last>>

\* ------------------------------------------------------------------ bounds
\* The longest collection of validations a caller holds at once.
MaxLen == 3
\* The most problems held by the caller's validations at once.
MaxErrs == 3
\* The longest source iterator handed to collect_vec.
MaxItems == 4

Problems == {"bad-name", "bad-ext"}
Vals == {0, 1}
FatalErrors == {"io", "eval"}

\* ----------------------------------------------------------------- payloads
\* Success payloads, in one record shape: (), an integer, or a Vec.
Unit == [k |-> "unit", n |-> 0, items |-> <<>>]
IntVal(i) == [k |-> "int", n |-> i, items |-> <<>>]
Vec(xs) == [k |-> "vec", n |-> 0, items |-> xs]
\* The payload slot of a Failure, which holds no value.
NoValue == [k |-> "none", n |-> 0, items |-> <<>>]

\* ------------------------------------------------------------ Validation<A>
Failure(errs) == [tag |-> "Failure", errs |-> errs, val |-> NoValue]
Success(value) == [tag |-> "Success", errs |-> <<>>, val |-> value]

IsFailure(v) == v.tag = "Failure"
IsSuccess(v) == v.tag = "Success"
IsEmptyFailure(v) == IsFailure(v) /\ v.errs = <<>>

\* anyhow::Result<Validation<A>> and std::result::Result<Vec<A>, E>
Ok(v) == [kind |-> "Ok", v |-> v, error |-> "none"]
Err(e) == [kind |-> "Err", v |-> Failure(<<>>), error |-> e]
OkVec(xs) == [kind |-> "Ok", v |-> xs, error |-> "none"]
ErrVec(e) == [kind |-> "Err", v |-> <<>>, error |-> e]

\* ---------------------------------------------------------------- closures
\* The closures the callers pass, by name.
MapFns == {"flip", "discard"}
AndFns == {"left", "right"}
ResultFns == {"fatal", "accept", "reject", "vacuous"}

\* impl From<P> for Validation<A>, at P = Problem (value.into() moves it)
from(value) == Failure(<<value>>)

ApplyMap(f, a) ==
    IF f = "flip" THEN IntVal(1 - a.n) ELSE Unit

ApplyAnd(f, a, b) ==
    IF f = "left" THEN a ELSE b

ApplyResult(f, a) ==
    CASE f = "fatal" -> Err("io")
      [] f = "accept" -> Ok(Success(a))
      [] f = "reject" -> Ok(from("bad-name"))
      [] OTHER -> Ok(Failure(<<>>))

\* itertools::concat: the inner vectors appended in order
RECURSIVE concat(_)
concat(vecs) ==
    IF vecs = <<>> THEN <<>> ELSE Head(vecs) \o concat(Tail(vecs))

\* -------------------------------------------------------------- combinators
\* Each returns the value the call returns (out) and how often it invoked
\* the closure it was given (calls).
\* map, but the closure runs on a Failure as well
map_eager(self, f) ==
    IF IsFailure(self)
    THEN [out |-> Failure(self.errs), calls |-> 1]
    ELSE [out |-> Success(ApplyMap(f, self.val)), calls |-> 1]

map(self, f) ==
    IF IsFailure(self)
    THEN [out |-> Failure(self.errs), calls |-> 0]
    ELSE [out |-> Success(ApplyMap(f, self.val)), calls |-> 1]

\* result_map, but a Failure is reported as a fatal error
result_map_fatal(self, f) ==
    IF IsFailure(self)
    THEN [out |-> Err("io"), calls |-> 0]
    ELSE [out |-> ApplyResult(f, self.val), calls |-> 1]

result_map(self, f) ==
    IF IsFailure(self)
    THEN [out |-> Ok(Failure(self.errs)), calls |-> 0]
    ELSE [out |-> ApplyResult(f, self.val), calls |-> 1]

\* and, but the right problems come first
and_swapped(self, other, f) ==
    CASE IsSuccess(self) /\ IsSuccess(other) ->
            [out |-> Success(ApplyAnd(f, self.val, other.val)), calls |-> 1]
      [] IsFailure(self) /\ IsFailure(other) ->
            [out |-> Failure(concat(<<other.errs, self.errs>>)), calls |-> 0]
      [] IsFailure(self) /\ IsSuccess(other) ->
            [out |-> Failure(self.errs), calls |-> 0]
      [] OTHER ->
            [out |-> Failure(other.errs), calls |-> 0]

\* and, but short-circuiting: only the left problems are kept
and_keep_left(self, other, f) ==
    CASE IsSuccess(self) /\ IsSuccess(other) ->
            [out |-> Success(ApplyAnd(f, self.val, other.val)), calls |-> 1]
      [] IsFailure(self) ->
            [out |-> Failure(self.errs), calls |-> 0]
      [] OTHER ->
            [out |-> Failure(other.errs), calls |-> 0]

and(self, other, f) ==
    CASE IsSuccess(self) /\ IsSuccess(other) ->
            [out |-> Success(ApplyAnd(f, self.val, other.val)), calls |-> 1]
      [] IsFailure(self) /\ IsFailure(other) ->
            [out |-> Failure(concat(<<self.errs, other.errs>>)), calls |-> 0]
      [] IsFailure(self) /\ IsSuccess(other) ->
            [out |-> Failure(self.errs), calls |-> 0]
      [] OTHER ->
            [out |-> Failure(other.errs), calls |-> 0]

and_(self, other) == and(self, other, "right")

\* partition_map: Left(err) for a Failure, Right(value) for a Success
RECURSIVE Lefts(_)
Lefts(vs) ==
    IF vs = <<>> THEN <<>>
    ELSE IF IsFailure(Head(vs)) THEN <<Head(vs).errs>> \o Lefts(Tail(vs))
    ELSE Lefts(Tail(vs))

RECURSIVE Rights(_)
Rights(vs) ==
    IF vs = <<>> THEN <<>>
    ELSE IF IsSuccess(Head(vs)) THEN <<Head(vs).val>> \o Rights(Tail(vs))
    ELSE Rights(Tail(vs))

\* sequence, but testing errors.is_empty() in place of flattened_errors
sequence_checks_outer(check_results) ==
    LET errors == Lefts(check_results)
        values == Rights(check_results)
        flattened_errors == concat(errors)
    IN  IF errors = <<>>
        THEN Success(Vec(values))
        ELSE Failure(flattened_errors)

sequence(check_results) ==
    LET errors == Lefts(check_results)
        values == Rights(check_results)
        flattened_errors == concat(errors)
    IN  IF flattened_errors = <<>>
        THEN Success(Vec(values))
        ELSE Failure(flattened_errors)

\* sequence_, but written as the left fold of and_ from Success(())
RECURSIVE FoldAnd_(_, _)
FoldAnd_(acc, vs) ==
    IF vs = <<>> THEN acc ELSE FoldAnd_(and_(acc, Head(vs)).out, Tail(vs))

sequence_by_fold(validations) == FoldAnd_(Success(Unit), validations)

sequence_(validations) == map(sequence(validations), "discard").out

\* The items of the source iterator of collect_vec: Result<A, E>
OkItem(a) == [kind |-> "Ok", v |-> a, error |-> "none"]
ErrItem(e) == [kind |-> "Err", v |-> 0, error |-> e]

\* Result<Vec<A>, E>: FromIterator, as self.collect() runs it: next() is
\* called until it yields None or an Err; an Err ends the collection.
\* taken counts the items next() has yielded.
RECURSIVE collect(_, _, _)
collect(iter, acc, taken) ==
    IF iter = <<>> THEN [out |-> OkVec(acc), taken |-> taken]
    ELSE IF Head(iter).kind = "Err"
         THEN [out |-> ErrVec(Head(iter).error), taken |-> taken + 1]
         ELSE collect(Tail(iter), Append(acc, Head(iter).v), taken + 1)

\* collect_vec, but the source is drained after the first error
collect_vec_drain(self) ==
    [out |-> collect(self, <<>>, 0).out, taken |-> Len(self)]

collect_vec(self) == collect(self, <<>>, 0)

\* ------------------------------------------------------------------- state
NoCall == [op |-> "none", f |-> "none", args |-> <<>>, out |-> Success(Unit), calls |-> 0]

Call(op, f, args, out, calls) ==
    [op |-> op, f |-> f, args |-> args, out |-> out, calls |-> calls]

RECURSIVE TotalErrs(_)
TotalErrs(vs) ==
    IF vs = <<>> THEN 0 ELSE Len(Head(vs).errs) + TotalErrs(Tail(vs))

Init ==
    /\ stack = <<>>
    /\ last = NoCall

Top == stack[Len(stack)]
Below == stack[Len(stack) - 1]
Pop(k) == SubSeq(stack, 1, Len(stack) - k)

\* Sequences over S of length lo..hi
SeqsOf(S, lo, hi) == UNION {[1..n -> S] : n \in lo..hi}

\* The caller creates Success(value) directly.
PushSuccess ==
    /\ Len(stack) < MaxLen
    /\ \E a \in {Unit} \cup {IntVal(i) : i \in Vals} :
         /\ stack' = Append(stack, Success(a))
         /\ last' = Call("Success", "none", <<>>, Success(a), 0)

\* A single check reports its problem: problem.into()
PushFrom ==
    /\ Len(stack) < MaxLen
    /\ TotalErrs(stack) < MaxErrs
    /\ \E p \in Problems :
         /\ stack' = Append(stack, from(p))
         /\ last' = Call("from", "none", <<>>, from(p), 0)

\* The caller writes the public variant Failure(vec) itself, with any vector.
PushFailure ==
    /\ Len(stack) < MaxLen
    /\ \E es \in SeqsOf(Problems, 0, MaxErrs - TotalErrs(stack)) :
         /\ stack' = Append(stack, Failure(es))
         /\ last' = Call("Failure", "none", <<>>, Failure(es), 0)

\* f: A -> B must accept the payload: "flip" takes an integer.
MapTyped(v, f) == f = "flip" /\ IsSuccess(v) => v.val.k = "int"

Map ==
    /\ Len(stack) >= 1
    /\ \E f \in MapFns :
         /\ MapTyped(Top, f)
         /\ LET r == map(Top, f)
            IN  /\ stack' = Append(Pop(1), r.out)
                /\ last' = Call("map", f, <<Top>>, r.out, r.calls)

\* The Result goes to the caller; the operand is consumed.
ResultMap ==
    /\ Len(stack) >= 1
    /\ \E f \in ResultFns :
         LET r == result_map(Top, f)
         IN  /\ stack' = Pop(1)
             /\ last' = Call("result_map", f, <<Top>>, r.out, r.calls)

And ==
    /\ Len(stack) >= 2
    /\ \E f \in AndFns :
         LET r == and(Below, Top, f)
         IN  /\ stack' = Append(Pop(2), r.out)
             /\ last' = Call("and", f, <<Below, Top>>, r.out, r.calls)

\* and_ is defined on Validation<()> only.
IsUnitTyped(v) == IsSuccess(v) => v.val = Unit

And_ ==
    /\ Len(stack) >= 2
    /\ IsUnitTyped(Below)
    /\ LET r == and_(Below, Top)
       IN  /\ stack' = Append(Pop(2), r.out)
           /\ last' = Call("and_", "right", <<Below, Top>>, r.out, r.calls)

\* The elements of one collection have one type A; A is () or an integer.
Homogeneous(vs) ==
    \E k \in {"unit", "int"} :
        \A i \in DOMAIN vs : IsSuccess(vs[i]) => vs[i].val.k = k

Sequence ==
    /\ Homogeneous(stack)
    /\ LET out == sequence(stack)
       IN  /\ stack' = <<out>>
           /\ last' = Call("sequence", "none", stack, out, 0)

Sequence_ ==
    /\ \A i \in DOMAIN stack : IsUnitTyped(stack[i])
    /\ LET out == sequence_(stack)
       IN  /\ stack' = <<out>>
           /\ last' = Call("sequence_", "none", stack, out, 0)

Next ==
    \/ PushSuccess
    \/ PushFrom
    \/ PushFailure
    \/ Map
    \/ ResultMap
    \/ And
    \/ And_
    \/ Sequence
    \/ Sequence_

Spec == Init /\ [][Next]_vars

\* The values built only as Success(v) or from a single problem, closed under
\* map, and, and_, sequence and sequence_.
ClosedNext ==
    \/ PushSuccess
    \/ PushFrom
    \/ Map
    \/ And
    \/ And_
    \/ Sequence
    \/ Sequence_

ClosedSpec == Init /\ [][ClosedNext]_vars

\* ------------------------------------------------------------- collect_vec
Items == {OkItem(a) : a \in Vals} \cup {ErrItem(e) : e \in FatalErrors}

CollectVec ==
    /\ \E src \in SeqsOf(Items, 0, MaxItems) :
         LET r == collect_vec(src)
         IN  last' = Call("collect_vec", "none", src, r.out, r.taken)
    /\ UNCHANGED stack

CollectNext == CollectVec

CollectSpec == Init /\ [][CollectNext]_vars

\* ------------------------------------------------------------------ claims
Accumulating == {"and", "and_", "sequence", "sequence_"}
Combinators == {"from", "map", "result_map", "and", "and_", "sequence", "sequence_"}

SomeOperandFails == \E i \in DOMAIN last.args : IsFailure(last.args[i])
SomeOperandIsEmptyFailure == \E i \in DOMAIN last.args : IsEmptyFailure(last.args[i])

\* The problems of the failing elements, in element order.
RECURSIVE FailingProblems(_)
FailingProblems(vs) ==
    IF vs = <<>> THEN <<>>
    ELSE (IF IsFailure(Head(vs)) THEN Head(vs).errs ELSE <<>>)
             \o FailingProblems(Tail(vs))

Count(errs, p) == Cardinality({i \in DOMAIN errs : errs[i] = p})

\* C1: for and, and_, sequence and sequence_, whatever the operands (an
\* empty Failure included): if some operand is Failure the result is
\* Failure, so the result is Success only when every operand is Success.
C1_FailureWhenSomeOperandFails ==
    last.op \in Accumulating /\ SomeOperandFails => IsFailure(last.out)

\* C2: sequence returns Success of the values in order when every element
\* is Success, and otherwise Failure of the failing elements' problems
\* concatenated in element order.
C2_SequenceResult ==
    last.op = "sequence" =>
        IF SomeOperandFails
        THEN last.out = Failure(FailingProblems(last.args))
        ELSE last.out = Success(Vec([i \in DOMAIN last.args |-> last.args[i].val]))

\* C3: and / and_ follow the four-row truth table, and f runs only in the
\* Success + Success row.
C3_AndTruthTable ==
    last.op \in {"and", "and_"} =>
        LET l == last.args[1]
            r == last.args[2]
        IN  /\ IsSuccess(l) /\ IsSuccess(r) =>
                /\ last.calls = 1
                /\ last.op = "and" => last.out = Success(ApplyAnd(last.f, l.val, r.val))
                /\ last.op = "and_" => last.out = Success(r.val)
            /\ IsFailure(l) /\ IsFailure(r) =>
                last.calls = 0 /\ last.out = Failure(l.errs \o r.errs)
            /\ IsFailure(l) /\ IsSuccess(r) =>
                last.calls = 0 /\ last.out = Failure(l.errs)
            /\ IsSuccess(l) /\ IsFailure(r) =>
                last.calls = 0 /\ last.out = Failure(r.errs)

\* Both sides failed, the left with two problems, and the sides differ.
C3_Witness ==
    /\ last.op = "and"
    /\ IsFailure(last.args[1]) /\ IsFailure(last.args[2])
    /\ Len(last.args[1].errs) = 2 /\ Len(last.args[2].errs) = 1
    /\ last.args[1].errs[1] # last.args[1].errs[2]
    /\ last.args[1].errs[1] # last.args[2].errs[1]
    /\ Len(last.out.errs) = 3

\* C4: result_map on Failure(es) does not invoke f and returns
\* Ok(Failure(es)); on Success(a) it invokes f once and returns f(a) as is.
C4_ResultMap ==
    last.op = "result_map" =>
        LET v == last.args[1]
        IN  IF IsFailure(v)
            THEN last.calls = 0 /\ last.out = Ok(Failure(v.errs))
            ELSE last.calls = 1 /\ last.out = ApplyResult(last.f, v.val)

\* A Failure with problems went through result_map with a closure that
\* would have ended fatally.
C4_Witness ==
    /\ last.op = "result_map"
    /\ last.f = "fatal"
    /\ IsFailure(last.args[1])
    /\ Len(last.args[1].errs) = 2
    /\ last.out.kind = "Ok"

\* C5: map on Failure(es) returns Failure(es) and does not invoke f; on
\* Success(a) it returns Success(f(a)) and invokes f once.
C5_Map ==
    last.op = "map" =>
        LET v == last.args[1]
        IN  IF IsFailure(v)
            THEN last.calls = 0 /\ last.out = Failure(v.errs)
            ELSE last.calls = 1 /\ last.out = Success(ApplyMap(last.f, v.val))

\* A Failure with two different problems went through map.
C5_Witness ==
    /\ last.op = "map"
    /\ IsFailure(last.args[1])
    /\ Len(last.args[1].errs) = 2
    /\ last.args[1].errs[1] # last.args[1].errs[2]
    /\ last.calls = 0

HasErr(src) == \E i \in DOMAIN src : src[i].kind = "Err"
FirstErr(src) ==
    CHOOSE i \in DOMAIN src :
        src[i].kind = "Err" /\ \A j \in 1..(i - 1) : src[j].kind = "Ok"

\* C6: collect_vec returns every value in order when no item is an error;
\* otherwise it returns the first error and takes no item after it.
C6_CollectVec ==
    last.op = "collect_vec" =>
        LET src == last.args
        IN  IF HasErr(src)
            THEN /\ last.out = ErrVec(src[FirstErr(src)].error)
                 /\ last.calls = FirstErr(src)
            ELSE /\ last.out = OkVec([i \in DOMAIN src |-> src[i].v])
                 /\ last.calls = Len(src)

\* A value, then an error, then a different error, then a value.
C6_Witness ==
    /\ last.op = "collect_vec"
    /\ Len(last.args) = 4
    /\ last.args[1].kind = "Ok"
    /\ last.args[2].kind = "Err"
    /\ last.args[3].kind = "Err"
    /\ last.args[3].error # last.args[2].error
    /\ last.args[4].kind = "Ok"
    /\ last.out.kind = "Err"
    /\ last.calls = 2

\* The Validation the last call returned, if it returned one.
ReturnsValidation ==
    /\ last.op \in Combinators
    /\ last.op = "result_map" => last.out.kind = "Ok"
Returned == IF last.op = "result_map" THEN last.out.v ELSE last.out

C8_Sequence_DiscardsPayload ==
    last.op = "sequence_" =>
        LET s == sequence(last.args)
        IN  /\ last.out.tag = s.tag
            /\ last.out.errs = s.errs
            /\ IsSuccess(last.out) => last.out.val = Unit

\* sequence_ over a Success and two failing elements.
C8_Witness ==
    /\ last.op = "sequence_"
    /\ Len(last.args) = 3
    /\ IsSuccess(last.args[1])
    /\ IsFailure(last.args[2]) /\ IsFailure(last.args[3])
    /\ Len(last.out.errs) = 3

\* C9: sequence_(vs) has the variant and the problems of the left fold
\* Success(()).and_(v1)...and_(vn), whatever the elements (an empty
\* Failure included).
C9_Sequence_IsAndFold ==
    last.op = "sequence_" =>
        LET fold == FoldAnd_(Success(Unit), last.args)
        IN  /\ last.out.tag = fold.tag
            /\ last.out.errs = fold.errs

\* C10: from Success(v) and single problems, under map, and, and_, sequence
\* and sequence_, every value is Success or a Failure with a problem, and a
\* Failure result holds exactly the problems of the failing operands, each
\* as often as they do.
C10_Closure ==
    /\ \A i \in DOMAIN stack : ~IsEmptyFailure(stack[i])
    /\ last.op \in {"Success", "from", "map"} \cup Accumulating =>
           ~IsEmptyFailure(last.out)
    /\ last.op \in {"map"} \cup Accumulating /\ IsFailure(last.out) =>
           \A p \in Problems :
               Count(last.out.errs, p) = Count(FailingProblems(last.args), p)

\* Two failing operands of and, one of them built by an earlier and.
C10_Witness ==
    /\ last.op = "and"
    /\ IsFailure(last.args[1]) /\ IsFailure(last.args[2])
    /\ Len(last.args[1].errs) = 2
    /\ Len(last.out.errs) = 3

====
